---------------------------- MODULE Spec2Model ----------------------------
(***************************************************************************)
(* State-machine model of the unified log API (src/app.py): the access     *)
(* guard, POST /logs (receive_unified_log), GET /logs (get_unified_logs),  *)
(* GET / (health_check) and the date filter parser (parse_date).           *)
(*                                                                         *)
(* Time is counted in ticks: an instant is a number of ticks since the     *)
(* smallest representable datetime (datetime.min); a day has TicksPerDay   *)
(* ticks and the representable range is the days 0 .. MaxDay.  A tick is   *)
(* also the resolution at which the store keeps a timestamp.               *)
(***************************************************************************)
EXTENDS Integers, Sequences, FiniteSets

\* The field names of the model's records.  TLC keeps a record's fields in the
\* order their names first occur in the module; every record below lists its
\* fields in the order of this list, so a record is built in its final order.
FieldNames ==
    [t |-> "tag of a value", s |-> "str", n |-> "num", b |-> "bool", a |-> "array",
     f |-> "object", fmt |-> "date string", day |-> "date string",
     tick |-> "date string", off |-> "date string",
     status |-> "response", structured |-> "response", error |-> "response",
     log_type_processed |-> "response", log_id |-> "response",
     total_resultados |-> "response", filtros_aplicados |-> "response",
     logs |-> "response", api_status |-> "response", mongodb_status |-> "response",
     _id |-> "document", timestamp_utc |-> "document", source_ip |-> "document",
     log_type |-> "document",
     route |-> "request", api_key |-> "request", remote_addr |-> "request",
     body |-> "request", type |-> "request, body", level |-> "body, document",
     message |-> "body, document", summary |-> "message",
     robo_codigo |-> "request, summary", ipaas_codigo |-> "request, body, document",
     execution_details |-> "document", data_inicio |-> "request",
     data_fim |-> "request", json |-> "body", data |-> "body", ok |-> "data, outcome",
     built |-> "query", response |-> "outcome", inserted |-> "outcome",
     collection |-> "outcome, query", doc |-> "outcome", query |-> "outcome",
     field |-> "query", code |-> "query", gte |-> "query", lt |-> "query",
     lte |-> "query", raised |-> "outcome", dt |-> "outcome", exc |-> "outcome",
     time_provided |-> "outcome", iso |-> "timestamp", zone |-> "timestamp"]

\* ------------------------------------------------------------- bounds
TicksPerDay == 2
MaxDay == 2
MaxStore == 2
MaxDateStore == 1
BulkExtra == 1
\* Program constant: .limit(100) of get_unified_logs.
QueryLimit == 100

MaxInstant == (MaxDay + 1) * TicksPerDay - 1
Instants == 0 .. MaxInstant
Days == 0 .. MaxDay
\* UTC offsets, in ticks, of the zones a date string or the server may use.
Offsets == {-1, 0, 1}

\* ------------------------------------------------------- Python values
\* A JSON / Python value is a tagged record.  Strings are sequences of
\* one-character strings, so that str.lower() is computed per character.
PyNone == [t |-> "null"]
Str(s) == [t |-> "str", s |-> s]
Num(n) == [t |-> "num", n |-> n]
Bool(b) == [t |-> "bool", b |-> b]
Arr(a) == [t |-> "array", a |-> a]
Obj(f) == [t |-> "object", f |-> f]
EmptyObj == Obj(<<>>)

RPA == <<"r", "p", "a">>
IPAAS == <<"i", "p", "a", "a", "s">>

\* Python truthiness (the `not x` tests of the handlers).
Truthy(v) ==
    CASE v.t = "null" -> FALSE
      [] v.t = "str" -> v.s # <<>>
      [] v.t = "num" -> v.n # 0
      [] v.t = "bool" -> v.b
      [] v.t = "array" -> v.a # <<>>
      [] v.t = "object" -> DOMAIN v.f # {}
      [] v.t = "datestr" -> v.fmt # "empty"
      [] OTHER -> TRUE

\* str.lower() on one character.
LowerChar(c) ==
    CASE c = "R" -> "r"
      [] c = "P" -> "p"
      [] c = "A" -> "a"
      [] c = "I" -> "i"
      [] c = "S" -> "s"
      [] c = "X" -> "x"
      [] OTHER -> c

Lower(s) == [i \in 1 .. Len(s) |-> LowerChar(s[i])]

\* str(v): a string is itself; any other value prints as text that is neither
\* "rpa" nor "ipaas" in any casing.
PyStr(v) ==
    CASE v.t = "str" -> v.s
      [] v.t = "num" -> IF v.n = 0 THEN <<"0">> ELSE <<"1">>
      [] v.t = "bool" -> IF v.b THEN <<"T", "r", "u", "e">> ELSE <<"F", "a", "l", "s", "e">>
      [] v.t = "array" -> <<"[", "]">>
      [] v.t = "object" -> <<"{", "}">>
      [] OTHER -> <<"N", "o", "n", "e">>

\* dict.get(key): the value, or None when the key is absent.
Get(obj, key) == IF key \in DOMAIN obj.f THEN obj.f[key] ELSE PyNone


\* ---------------------------------------------------------------- state
VARIABLES
    REAL_API_KEY,      \* the configured secret (a string)
    local_utcoffset,   \* UTC offset of the server's local zone, in ticks
    client,            \* TRUE iff the module-level client is not None
    rpa_collection,    \* TRUE iff the module-level handle is not None
    ipaas_collection,  \* TRUE iff the module-level handle is not None
    rpa_events,        \* documents of collection "rpa_events", natural order
    ipaas_events,      \* documents of collection "ipaas_events", natural order
    request,           \* the request handled last
    query,             \* the filter document get_unified_logs built last
    response           \* the response to the request handled last

vars == <<REAL_API_KEY, local_utcoffset, client, rpa_collection, ipaas_collection,
          rpa_events, ipaas_events, request, query, response>>

config == <<REAL_API_KEY, local_utcoffset, client, rpa_collection, ipaas_collection>>
store == <<rpa_events, ipaas_events>>

\* ------------------------------------------------------------ responses
\* jsonify(...), status: one of the handlers' own JSON envelopes.
Error(status, error) == [status |-> status, structured |-> TRUE, error |-> error]
\* An exception that leaves the view function: Flask answers 500 with its own
\* error page, not with an envelope of the handlers.
Unhandled(exc) == [status |-> 500, structured |-> FALSE, error |-> exc]
NoQuery == [built |-> FALSE]
NoRequest == [route |-> "none"]
NoResponse == [status |-> 0, structured |-> TRUE, error |-> "none"]

\* --------------------------------------------------------- access guard
\* A guard that answers 401 only when the header is absent.
require_api_key_absent_only(api_key) ==
    IF api_key.t = "null" THEN 401
    ELSE IF api_key.s # REAL_API_KEY THEN 403
    ELSE 0

\* decorated_function: 401, 403, or 0 when the view function is called.
require_api_key(api_key) ==
    IF ~Truthy(api_key) THEN 401
    ELSE IF api_key.s # REAL_API_KEY THEN 403
    ELSE 0

GuardError(code) ==
    IF code = 401 THEN Error(401, "header ausente") ELSE Error(403, "chave invalida")

\* ----------------------------------------------------------- POST /logs
\* ObjectId of the next inserted document, and its str().
NextId == Len(rpa_events) + Len(ipaas_events) + 1
IdStr(id) == <<"oid", id>>

\* The view function.  `now` is datetime.utcnow(), `insert_ok` whether
\* insert_one returns (TRUE) or raises (FALSE).  The result names the
\* response and, when a document was inserted, the document and the
\* collection.
Reject(resp) == [response |-> resp, inserted |-> FALSE]

\* An insert that writes the document even when insert_one raises.
InsertThenFail(collection, doc, insert_ok) ==
    [response |-> IF insert_ok
                  THEN [status |-> 201, structured |-> TRUE,
                        log_type_processed |-> doc.log_type,
                        log_id |-> IdStr(doc._id)]
                  ELSE Error(500, "falha ao escrever"),
     inserted |-> TRUE,
     collection |-> collection,
     doc |-> doc]

Insert(collection, doc, insert_ok) ==
    IF insert_ok
    THEN [response |-> [status |-> 201, structured |-> TRUE,
                        log_type_processed |-> doc.log_type,
                        log_id |-> IdStr(doc._id)],
          inserted |-> TRUE,
          collection |-> collection,
          doc |-> doc]
    ELSE Reject(Error(500, "falha ao escrever"))

\* An iPaaS branch without the test of ipaas_codigo.
ipaas_branch_unchecked(data, log_document, insert_ok) ==
    IF "ipaas_codigo" \notin DOMAIN data.f \/ "data" \notin DOMAIN data.f
    THEN Reject(Error(400, "ipaas: faltam campos"))
    ELSE Insert("ipaas_events",
                [_id |-> NextId,
                 timestamp_utc |-> log_document.timestamp_utc,
                 source_ip |-> log_document.source_ip,
                 log_type |-> log_document.log_type,
                 ipaas_codigo |-> Get(data, "ipaas_codigo"),
                 execution_details |-> Get(data, "data")],
                insert_ok)

\* isinstance(execution_data, dict) is tested, but its branch is `pass`:
\* execution_data is stored whatever it is.
ipaas_branch(data, log_document, insert_ok) ==
    IF "ipaas_codigo" \notin DOMAIN data.f \/ "data" \notin DOMAIN data.f
    THEN Reject(Error(400, "ipaas: faltam campos"))
    ELSE LET codigo == Get(data, "ipaas_codigo")
             execution_data == Get(data, "data")
         IN  IF codigo.t # "str" \/ ~Truthy(codigo)
             THEN Reject(Error(400, "ipaas_codigo invalido"))
             ELSE Insert("ipaas_events",
                         [_id |-> NextId,
                          timestamp_utc |-> log_document.timestamp_utc,
                          source_ip |-> log_document.source_ip,
                          log_type |-> log_document.log_type,
                          ipaas_codigo |-> codigo,
                          execution_details |-> execution_data],
                         insert_ok)

rpa_branch(data, log_document, insert_ok) ==
    IF "message" \notin DOMAIN data.f \/ "level" \notin DOMAIN data.f
    THEN Reject(Error(400, "rpa: faltam campos"))
    ELSE Insert("rpa_events",
                [_id |-> NextId,
                 timestamp_utc |-> log_document.timestamp_utc,
                 source_ip |-> log_document.source_ip,
                 log_type |-> log_document.log_type,
                 level |-> Get(data, "level"),
                 message |-> Get(data, "message")],
                insert_ok)

receive_unified_log(req, now, insert_ok) ==
    IF ~rpa_collection \/ ~ipaas_collection
    THEN Reject(Error(503, "servico indisponivel"))
    ELSE IF ~req.body.json
    THEN \* request.json raises: caught by `except Exception`
         Reject(Error(400, "json invalido"))
    ELSE LET data == req.body.data IN
         IF data.t # "object"
         THEN \* data.get raises AttributeError: caught by `except Exception`
              Reject(Error(400, "json invalido"))
         ELSE IF ~Truthy(Get(data, "type"))
         THEN Reject(Error(400, "type obrigatorio"))
         ELSE LET log_type == Lower(PyStr(Get(data, "type")))
                  log_document == [timestamp_utc |-> now,
                                   source_ip |-> req.remote_addr,
                                   log_type |-> log_type]
              IN  IF log_type = RPA THEN rpa_branch(data, log_document, insert_ok)
                  ELSE IF log_type = IPAAS THEN ipaas_branch(data, log_document, insert_ok)
                  ELSE Reject(Error(400, "type invalido"))

\* POST /logs behind the access guard.  `clock` holds the instants utcnow()
\* may return, `cap` bounds the number of stored documents.
PostLogs(req, clock, cap) ==
    /\ request' = req
    /\ query' = NoQuery
    /\ UNCHANGED config
    /\ LET code == require_api_key(req.api_key) IN
       IF code # 0
       THEN /\ response' = GuardError(code)
            /\ UNCHANGED store
       ELSE \E now \in clock, insert_ok \in BOOLEAN :
               LET out == receive_unified_log(req, now, insert_ok) IN
               /\ response' = out.response
               /\ IF out.inserted
                  THEN /\ NextId <= cap
                       /\ IF out.collection = "rpa_events"
                          THEN /\ rpa_events' = Append(rpa_events, out.doc)
                               /\ UNCHANGED ipaas_events
                          ELSE /\ ipaas_events' = Append(ipaas_events, out.doc)
                               /\ UNCHANGED rpa_events
                  ELSE UNCHANGED store

\* ------------------------------------------------------------ parse_date
\* A date string of the query: fmt names its shape,
\*   "date"  YYYY-MM-DD                    (day; tick and off are 0)
\*   "loose" Y-M-D without zero padding    (read by strptime only)
\*   "naive" YYYY-MM-DDTHH:MM:SS           (day, tick)
\*   "aware" the same with an offset or Z  (day, tick, off)
\*   "bad"   anything else,  "empty" the empty string.
DateStr(fmt, day, tick, off) ==
    [t |-> "datestr", fmt |-> fmt, day |-> day, tick |-> tick, off |-> off]

\* Optional values: <<>> is None, <<v>> is v.
None == <<>>
Some(v) == <<v>>

\* datetime.fromisoformat: the wall-clock datetime as written, or None for
\* ValueError.
fromisoformat(s) ==
    IF s.fmt \in {"date", "naive", "aware"}
    THEN Some(s.day * TicksPerDay + s.tick)
    ELSE None

\* datetime.strptime(s, '%Y-%m-%d'), or None for ValueError.
strptime(s) ==
    IF s.fmt \in {"date", "loose"} THEN Some(s.day * TicksPerDay) ELSE None

\* dt.astimezone(utc).replace(tzinfo=None): the outcomes, each a UTC instant
\* or the exception raised.  An aware datetime is shifted by its own offset;
\* a naive one is taken as local time of the server.  CPython finds the local
\* zone of a naive datetime by probing the day before it, which raises
\* ValueError on the first representable day, and on the last day of an
\* eastern zone the probe may leave the range too.
Converted(u) == [ok |-> TRUE, dt |-> u]
Raised(exc) == [ok |-> FALSE, exc |-> exc]

astimezone_utc(s, dt) ==
    IF s.fmt = "aware"
    THEN IF dt - s.off \in Instants
         THEN {Converted(dt - s.off)}
         ELSE {Raised("OverflowError")}
    ELSE IF dt < TicksPerDay
    THEN {Raised("ValueError")}
    ELSE IF dt - local_utcoffset \notin Instants
    THEN {Raised("OverflowError")}
    ELSE {Converted(dt - local_utcoffset)}
         \cup (IF local_utcoffset > 0 /\ dt >= MaxDay * TicksPerDay
               THEN {Raised("ValueError")}
               ELSE {})

\* time_provided: a time-of-day field of `dt` is not zero.
TimeProvided(dt) == dt % TicksPerDay # 0

\* The result (datetime or None, time_provided), or the exception that
\* leaves parse_date: only ValueError is caught.
Parsed(dt, time_provided) ==
    [raised |-> FALSE, dt |-> dt, time_provided |-> time_provided]
Escaped(exc) == [raised |-> TRUE, exc |-> exc]

date_only_fallback(s) ==
    IF strptime(s) # None THEN Parsed(strptime(s), FALSE) ELSE Parsed(None, FALSE)

\* A parser that takes time_provided from the UTC-normalized datetime.
parse_date_normalized(date_str) ==
    IF date_str.t = "null" \/ date_str.fmt = "empty"
    THEN {Parsed(None, FALSE)}
    ELSE IF fromisoformat(date_str) = None
    THEN {date_only_fallback(date_str)}
    ELSE LET dt == fromisoformat(date_str)[1] IN
         { IF c.ok THEN Parsed(Some(c.dt), TimeProvided(c.dt))
           ELSE IF c.exc = "ValueError" THEN date_only_fallback(date_str)
           ELSE Escaped(c.exc) : c \in astimezone_utc(date_str, dt) }

parse_date(date_str) ==
    IF date_str.t = "null" \/ date_str.fmt = "empty"
    THEN {Parsed(None, FALSE)}
    ELSE IF fromisoformat(date_str) = None
    THEN {date_only_fallback(date_str)}
    ELSE LET dt == fromisoformat(date_str)[1] IN
         { IF c.ok THEN Parsed(Some(c.dt), TimeProvided(dt))
           ELSE IF c.exc = "ValueError" THEN date_only_fallback(date_str)
           ELSE Escaped(c.exc) : c \in astimezone_utc(date_str, dt) }


\* ------------------------------------------------------------ GET /logs
\* The value a document holds at message.summary.robo_codigo, or None.
RoboCodigo(doc) ==
    IF doc.message.t = "object" /\ "summary" \in DOMAIN doc.message.f
    THEN LET summary == doc.message.f["summary"] IN
         IF summary.t = "object" /\ "robo_codigo" \in DOMAIN summary.f
         THEN Some(summary.f["robo_codigo"])
         ELSE None
    ELSE None

\* collection.find(query): whether a document matches the filter document.
Matches(doc, q) ==
    /\ q.code # None =>
          IF q.field = "ipaas_codigo"
          THEN doc.ipaas_codigo = Str(q.code[1])
          ELSE RoboCodigo(doc) = Some(Str(q.code[1]))
    /\ q.gte # None => doc.timestamp_utc >= q.gte[1]
    /\ q.lt # None => doc.timestamp_utc < q.lt[1]
    /\ q.lte # None => doc.timestamp_utc <= q.lte[1]

Reverse(seq) == [i \in 1 .. Len(seq) |-> seq[Len(seq) + 1 - i]]

\* .sort("timestamp_utc", -1): most recent first.  The store leaves the order
\* of documents with equal timestamps open; they come in natural order or,
\* with reversed_ties, in the reverse of it.
RECURSIVE SortFrom(_, _, _)
SortFrom(docs, t, reversed_ties) ==
    IF t < 0 THEN <<>>
    ELSE LET same == SelectSeq(docs, LAMBDA d : d.timestamp_utc = t) IN
         (IF reversed_ties THEN Reverse(same) ELSE same)
             \o SortFrom(docs, t - 1, reversed_ties)

\* A sort in ascending order: oldest first.
SortAscending(docs, reversed_ties) == Reverse(SortFrom(docs, MaxInstant, reversed_ties))

SortDescending(docs, reversed_ties) == SortFrom(docs, MaxInstant, reversed_ties)

\* .limit(100)
Limit(docs) == SubSeq(docs, 1, IF Len(docs) < QueryLimit THEN Len(docs) ELSE QueryLimit)

\* A cursor that limits in natural order first and sorts what is left.
FindLimitFirst(docs, q, reversed_ties) ==
    SortDescending(Limit(SelectSeq(docs, LAMBDA d : Matches(d, q))), reversed_ties)

\* find(query).limit(100).sort("timestamp_utc", -1): the cursor sorts, then
\* limits, in whichever order the two were set.
Find(docs, q, reversed_ties) ==
    Limit(SortDescending(SelectSeq(docs, LAMBDA d : Matches(d, q)), reversed_ties))

\* The loop over the cursor: _id as a string, the timestamp as ISO 8601 + "Z".
IsoZ(ts) == [iso |-> ts, zone |-> "Z"]
Render(doc) == [doc EXCEPT !._id = IdStr(@), !.timestamp_utc = IsoZ(@)]

Results(docs) == [i \in 1 .. Len(docs) |-> Render(docs[i])]

Events(collection) == IF collection = "rpa_events" THEN rpa_events ELSE ipaas_events

Answer(resp) == [response |-> resp, query |-> NoQuery]

\* The part of the view function after the type is resolved.  inicio and fim
\* are the outcomes of parse_date on the two date strings (read only when the
\* string is given), find_ok whether the cursor can be read.
run_query(req, log_type, collection, code_filter_key, inicio, fim, find_ok, reversed_ties) ==
    LET code_filter_value == req[code_filter_key]
        has_code == Truthy(code_filter_value)
        has_inicio == Truthy(req.data_inicio)
        has_fim == Truthy(req.data_fim)
        \* applied_filters: a key is None when the code did not set it
        applied_filters ==
            [type |-> Some(log_type),
             robo_codigo |-> IF has_code /\ code_filter_key = "robo_codigo"
                             THEN Some(code_filter_value.s) ELSE None,
             ipaas_codigo |-> IF has_code /\ code_filter_key = "ipaas_codigo"
                              THEN Some(code_filter_value.s) ELSE None,
             data_inicio |-> IF has_inicio THEN Some(req.data_inicio) ELSE None,
             data_fim |-> IF has_fim THEN Some(req.data_fim) ELSE None]
    IN
    IF has_inicio /\ inicio.raised THEN Answer(Unhandled(inicio.exc))
    ELSE IF has_inicio /\ inicio.dt = None
    THEN Answer(Error(400, "data_inicio invalida"))
    ELSE IF has_fim /\ fim.raised THEN Answer(Unhandled(fim.exc))
    ELSE IF has_fim /\ fim.dt = None
    THEN Answer(Error(400, "data_fim invalida"))
    ELSE IF has_fim /\ ~fim.time_provided /\ fim.dt[1] + TicksPerDay \notin Instants
    THEN \* data_fim + timedelta(days=1) raises OverflowError
         Answer(Unhandled("OverflowError"))
    ELSE LET q == [built |-> TRUE,
                   collection |-> collection,
                   field |-> code_filter_key,
                   code |-> IF has_code THEN Some(code_filter_value.s) ELSE None,
                   gte |-> IF has_inicio THEN inicio.dt ELSE None,
                   lt |-> IF has_fim /\ ~fim.time_provided
                          THEN Some(fim.dt[1] + TicksPerDay) ELSE None,
                   lte |-> IF has_fim /\ fim.time_provided THEN fim.dt ELSE None]
             results == Results(Find(Events(collection), q, reversed_ties))
         IN  IF find_ok
             THEN [response |-> [status |-> 200, structured |-> TRUE,
                                 total_resultados |-> Len(results),
                                 filtros_aplicados |-> applied_filters,
                                 logs |-> results],
                   query |-> q]
             ELSE [response |-> Error(500, "falha ao consultar"), query |-> q]

\* A view function that queries without testing the collection handles.
get_unified_logs_unchecked(req, inicio, fim, find_ok, reversed_ties) ==
    IF ~Truthy(req.type)
    THEN Answer(Error(400, "type ausente"))
    ELSE LET log_type == Lower(PyStr(req.type)) IN
         IF log_type = RPA
         THEN run_query(req, log_type, "rpa_events", "robo_codigo",
                        inicio, fim, find_ok, reversed_ties)
         ELSE IF log_type = IPAAS
         THEN run_query(req, log_type, "ipaas_events", "ipaas_codigo",
                        inicio, fim, find_ok, reversed_ties)
         ELSE Answer(Error(400, "type invalido"))

get_unified_logs(req, inicio, fim, find_ok, reversed_ties) ==
    IF ~Truthy(req.type)
    THEN Answer(Error(400, "type ausente"))
    ELSE LET log_type == Lower(PyStr(req.type)) IN
         IF log_type = RPA
         THEN IF ~rpa_collection
              THEN Answer(Error(503, "servico indisponivel (RPA)"))
              ELSE run_query(req, log_type, "rpa_events", "robo_codigo",
                             inicio, fim, find_ok, reversed_ties)
         ELSE IF log_type = IPAAS
         THEN IF ~ipaas_collection
              THEN Answer(Error(503, "servico indisponivel (iPaaS)"))
              ELSE run_query(req, log_type, "ipaas_events", "ipaas_codigo",
                             inicio, fim, find_ok, reversed_ties)
         ELSE Answer(Error(400, "type invalido"))

\* GET /logs behind the access guard.  find_ok: whether the cursor can be
\* read; reversed_ties: the order the store gives equal timestamps.
GetLogs(req) ==
    /\ request' = req
    /\ UNCHANGED <<config, store>>
    /\ LET code == require_api_key(req.api_key) IN
       IF code # 0
       THEN /\ response' = GuardError(code)
            /\ query' = NoQuery
       ELSE \E find_ok \in BOOLEAN, reversed_ties \in BOOLEAN,
               inicio \in parse_date(req.data_inicio), fim \in parse_date(req.data_fim) :
               LET out == get_unified_logs(req, inicio, fim, find_ok, reversed_ties) IN
               /\ response' = out.response
               /\ query' = out.query

\* ---------------------------------------------------------------- GET /
\* ping_ok: whether client.admin.command('ping') returns.  No access guard.
health_check(ping_ok) ==
    LET db_status == IF client /\ ping_ok THEN "conectado" ELSE "desconectado" IN
    [status |-> 200, structured |-> TRUE,
     api_status |-> "operacional", mongodb_status |-> db_status]

HealthCheck(req) ==
    /\ request' = req
    /\ \E ping_ok \in BOOLEAN : response' = health_check(ping_ok)
    /\ query' = NoQuery
    /\ UNCHANGED <<config, store>>

\* ---------------------------------------------------------------- inputs
Secret == <<"k">>
Keys == {PyNone, Str(<<>>), Str(Secret), Str(<<"w">>)}
RemoteAddr == Str(<<"i", "p">>)

R1 == <<"R", "1">>
X1 == <<"X", "1">>
X2 == <<"X", "2">>
Text == Str(<<"m">>)
Level == Str(<<"I", "N", "F", "O">>)
Summary == Obj([summary |-> Obj([robo_codigo |-> Str(R1)])])
Flag == Obj([ok |-> Bool(TRUE)])

NoJson == [json |-> FALSE]
Json(v) == [json |-> TRUE, data |-> v]
RpaBody(type, message) == Json(Obj([type |-> type, level |-> Level, message |-> message]))
IpaasBody(type, codigo, data) ==
    Json(Obj([type |-> type, ipaas_codigo |-> codigo, data |-> data]))

RpaBodies ==
    {RpaBody(Str(RPA), Text), RpaBody(Str(<<"R", "P", "A">>), Summary)}

PostBodies ==
    RpaBodies \cup
    {NoJson, Json(Arr(<<>>)), Json(EmptyObj),
     RpaBody(Str(<<>>), Text),
     RpaBody(Num(1), Text),
     RpaBody(Str(<<"x">>), Text),
     Json(Obj([type |-> Str(RPA), message |-> Text])),
     Json(Obj([type |-> Str(<<"R", "p", "a">>), level |-> Level])),
     IpaasBody(Str(IPAAS), Str(X1), Flag),
     IpaasBody(Str(<<"I", "P", "a", "a", "S">>), Str(X2), EmptyObj),
     IpaasBody(Str(IPAAS), Str(X1), Str(<<"a", "b", "c">>)),
     IpaasBody(Str(IPAAS), Str(X1), Arr(<<Num(1)>>)),
     Json(Obj([type |-> Str(IPAAS), data |-> Flag])),
     Json(Obj([type |-> Str(IPAAS), ipaas_codigo |-> Str(X1)])),
     IpaasBody(Str(IPAAS), Str(<<>>), Flag),
     IpaasBody(Str(IPAAS), Num(1), Flag)}

PostRequest(api_key, body) ==
    [route |-> "POST /logs", api_key |-> api_key, remote_addr |-> RemoteAddr, body |-> body]

GetRequest(api_key, type, robo_codigo, ipaas_codigo, data_inicio, data_fim) ==
    [route |-> "GET /logs", api_key |-> api_key, type |-> type,
     robo_codigo |-> robo_codigo, ipaas_codigo |-> ipaas_codigo,
     data_inicio |-> data_inicio, data_fim |-> data_fim]

HealthRequest(api_key) == [route |-> "GET /", api_key |-> api_key]

TypeParams ==
    {PyNone, Str(<<>>), Str(RPA), Str(<<"R", "P", "A">>), Str(<<"I", "p", "a", "a", "s">>),
     Str(<<"x">>)}

\* Every date string of the model.
DateStrs ==
    {DateStr("date", d, 0, 0) : d \in Days} \cup
    {DateStr("loose", d, 0, 0) : d \in Days} \cup
    {DateStr("naive", d, k, 0) : d \in Days, k \in 0 .. TicksPerDay - 1} \cup
    {DateStr("aware", d, k, o) : d \in Days, k \in 0 .. TicksPerDay - 1, o \in Offsets} \cup
    {DateStr("bad", 0, 0, 0), DateStr("empty", 0, 0, 0)}

\* ------------------------------------------------- the service as a whole
\* The state after the module is loaded: the secret read from the
\* environment, the server's zone, and either a connection (client and both
\* handles set) or none (all three None).  `rpa_backlogs` are the documents
\* the RPA collection may hold from earlier runs.
Start(secrets, offsets, connections, rpa_backlogs) ==
    /\ REAL_API_KEY \in secrets
    /\ local_utcoffset \in offsets
    /\ client \in connections
    /\ rpa_collection = client
    /\ ipaas_collection = client
    /\ rpa_events \in rpa_backlogs
    /\ ipaas_events = <<>>
    /\ request = NoRequest
    /\ query = NoQuery
    /\ response = NoResponse

\* All routes, small stores: every shape of body, key and type.
Init == Start({Secret, <<>>}, {0}, BOOLEAN, {<<>>})

\* (type, robo_codigo, ipaas_codigo, data_inicio, data_fim)
GetParams ==
    {<<ty, PyNone, PyNone, PyNone, PyNone>> : ty \in TypeParams} \cup
    {<<Str(RPA), Str(R1), PyNone, PyNone, PyNone>>,
     <<Str(IPAAS), PyNone, Str(X1), PyNone, PyNone>>,
     <<Str(IPAAS), PyNone, Str(X2), PyNone, DateStr("date", 1, 0, 0)>>,
     <<Str(RPA), PyNone, PyNone, DateStr("date", 1, 0, 0), DateStr("naive", 1, 1, 0)>>,
     <<Str(RPA), PyNone, PyNone, DateStr("bad", 0, 0, 0), DateStr("date", 1, 0, 0)>>,
     <<Str(IPAAS), PyNone, PyNone, PyNone, DateStr("bad", 0, 0, 0)>>}

Next ==
    \/ \E k \in Keys, b \in PostBodies :
          PostLogs(PostRequest(k, b), {TicksPerDay}, MaxStore)
    \/ \E k \in Keys, p \in GetParams :
          GetLogs(GetRequest(k, p[1], p[2], p[3], p[4], p[5]))
    \/ \E k \in Keys : HealthCheck(HealthRequest(k))

Spec == Init /\ [][Next]_vars


\* Date filters: one authorized client, every date string, every server zone;
\* records arrive at the first two instants of the second day.
InitDates == Start({Secret}, Offsets, {TRUE}, {<<>>})

DateInicios == {PyNone, DateStr("aware", 0, 0, 1)}

NextDates ==
    \/ \E b \in {RpaBody(Str(RPA), Text)} :
          PostLogs(PostRequest(Str(Secret), b), {TicksPerDay, TicksPerDay + 1}, MaxDateStore)
    \/ \E inicio \in DateInicios, fim \in DateStrs \cup {PyNone} :
          GetLogs(GetRequest(Str(Secret), Str(RPA), PyNone, PyNone, inicio, fim))
    \/ \E k \in {PyNone} : HealthCheck(HealthRequest(k))

SpecDates == InitDates /\ [][NextDates]_vars

\* Large collections: the RPA collection starts with the documents of earlier
\* ingestions, one fewer than the query limit or exactly as many, the older
\* half at instant 0 and the newer half at instant 1.  New records arrive at
\* either instant or a day later.
Backlog(n) ==
    [i \in 1 .. n |->
        [_id |-> i,
         timestamp_utc |-> IF 2 * i <= n THEN 0 ELSE 1,
         source_ip |-> RemoteAddr,
         log_type |-> RPA,
         level |-> Level,
         message |-> IF i % 2 = 1 THEN Summary ELSE Text]]

InitBulk == Start({Secret}, {0}, {TRUE}, {Backlog(QueryLimit - 1), Backlog(QueryLimit)})

BulkGetParams ==
    {<<Str(RPA), PyNone, PyNone, PyNone>>,
     <<Str(RPA), Str(R1), PyNone, PyNone>>,
     <<Str(RPA), PyNone, DateStr("aware", 0, 1, 0), PyNone>>,
     <<Str(RPA), PyNone, PyNone, DateStr("aware", 0, 1, 0)>>}

NextBulk ==
    \/ \E b \in RpaBodies :
          PostLogs(PostRequest(Str(Secret), b), {0, 1, TicksPerDay}, QueryLimit + BulkExtra)
    \/ \E p \in BulkGetParams :
          GetLogs(GetRequest(Str(Secret), p[1], p[2], PyNone, p[3], p[4]))
    \/ \E k \in {PyNone} : HealthCheck(HealthRequest(k))

SpecBulk == InitBulk /\ [][NextBulk]_vars

\* ================================================================ claims
\* The request carries a non-empty key equal to the configured secret.
KeyIsSecret(req) ==
    /\ req.api_key.t = "str"
    /\ req.api_key.s # <<>>
    /\ req.api_key.s = REAL_API_KEY

\* The category a POST body names, or <<>> when it names none.
BodyType(req) ==
    IF req.body.json /\ req.body.data.t = "object" /\ Truthy(Get(req.body.data, "type"))
    THEN Lower(PyStr(Get(req.body.data, "type")))
    ELSE <<>>

BodyHas(req, keys) == keys \subseteq DOMAIN req.body.data.f

\* The stored document is one of the records of the response's list.
InLogs(doc) == \E k \in DOMAIN response.logs : response.logs[k]._id = IdStr(doc._id)

IsPrefix(old, new) == Len(old) <= Len(new) /\ SubSeq(new, 1, Len(old)) = old

Connected == rpa_collection /\ ipaas_collection

AnsweredGet == request.route = "GET /logs" /\ response.status = 200

Unfiltered ==
    /\ ~Truthy(request.robo_codigo)
    /\ ~Truthy(request.ipaas_codigo)
    /\ ~Truthy(request.data_inicio)
    /\ ~Truthy(request.data_fim)

\* ---------------------------------------------------------------- C1
C1_Step ==
    /\ request'.route \in {"POST /logs", "GET /logs"} =>
          LET k == request'.api_key IN
          /\ (k.t = "null" \/ k = Str(<<>>)) =>
                response'.status = 401 /\ UNCHANGED store /\ query' = NoQuery
          /\ (k.t = "str" /\ k.s # <<>> /\ k.s # REAL_API_KEY) =>
                response'.status = 403 /\ UNCHANGED store /\ query' = NoQuery
          /\ response'.status \notin {401, 403} => KeyIsSecret(request')
    /\ request'.route = "GET /" => response'.status = 200

\* C1 (amended): on POST /logs and GET /logs a request whose X-API-Key header
\* is absent or empty is answered 401, one whose header is non-empty and
\* differs from the secret is answered 403, in both cases without inserting a
\* record or building a query; only a request whose key equals the secret
\* gets another status.  GET / is answered 200 whatever the key.
C1_AccessGuard == [][C1_Step]_vars

\* The empty header is answered 401 although the secret is not empty.
C1_Witness ==
    /\ request.route = "GET /logs"
    /\ request.api_key = Str(<<>>)
    /\ REAL_API_KEY = Secret
    /\ response.status = 401

\* C1 as stated: absent header 401, any present header that differs from the
\* secret 403.
C1_AsStated ==
    request.route \in {"POST /logs", "GET /logs"} =>
        /\ request.api_key.t = "null" => response.status = 401
        /\ (request.api_key.t = "str" /\ request.api_key.s # REAL_API_KEY) =>
              response.status = 403

\* ---------------------------------------------------------------- C2
\* C2: every stored record has a timestamp, the RPA collection holds only
\* records tagged "rpa", the iPaaS collection only records tagged "ipaas",
\* and an "ipaas" record has an ipaas_codigo that is a non-empty string.
C2_Records ==
    /\ \A i \in DOMAIN rpa_events :
          /\ rpa_events[i].timestamp_utc \in Instants
          /\ rpa_events[i].log_type = RPA
    /\ \A i \in DOMAIN ipaas_events :
          /\ ipaas_events[i].timestamp_utc \in Instants
          /\ ipaas_events[i].log_type = IPAAS
          /\ ipaas_events[i].ipaas_codigo.t = "str"
          /\ ipaas_events[i].ipaas_codigo.s # <<>>

\* A mixed-case iPaaS payload was stored next to an RPA record.
C2_Witness ==
    /\ request.route = "POST /logs"
    /\ request.body = IpaasBody(Str(<<"I", "P", "a", "a", "S">>), Str(X2), EmptyObj)
    /\ response.status = 201
    /\ Len(rpa_events) = 1
    /\ Len(ipaas_events) = 1

\* ---------------------------------------------------------------- C3
C3_PostStep ==
    (/\ request'.route = "POST /logs"
     /\ KeyIsSecret(request')
     /\ Connected
     /\ BodyType(request') = RPA
     /\ BodyHas(request', {"message", "level"})) =>
        /\ response'.status \in {201, 500}
        /\ response'.status = 500 =>
              response'.error = "falha ao escrever" /\ UNCHANGED store
        /\ response'.status = 201 =>
              /\ Len(rpa_events') = Len(rpa_events) + 1
              /\ response'.log_id # <<>>
              /\ response'.log_id = IdStr(rpa_events'[Len(rpa_events')]._id)

C3_Visible ==
    (AnsweredGet /\ Unfiltered) =>
        \A i \in DOMAIN rpa_events :
            Cardinality({j \in DOMAIN rpa_events :
                            /\ j # i
                            /\ rpa_events[j].timestamp_utc >= rpa_events[i].timestamp_utc})
                < QueryLimit
            => InLogs(rpa_events[i])

\* C3 (amended): an authorized POST /logs of type rpa with message and level
\* is answered 201 with the log_id of the record it appended, unless the
\* insert fails; and a GET /logs?type=rpa without filters answered 200 lists
\* every stored RPA record that has fewer than 100 other RPA records at or
\* after its timestamp.
C3_Ingested == [][C3_PostStep]_vars /\ []C3_Visible

\* More than 100 records: the newest is listed, the oldest is not.
C3_Witness ==
    /\ AnsweredGet
    /\ Unfiltered
    /\ Len(rpa_events) > QueryLimit
    /\ InLogs(rpa_events[Len(rpa_events)])
    /\ ~InLogs(rpa_events[1])

\* C3 as stated: the unfiltered list contains every stored RPA record.
C3_AsStated ==
    (AnsweredGet /\ Unfiltered) => \A i \in DOMAIN rpa_events : InLogs(rpa_events[i])

\* ---------------------------------------------------------------- C4
C4_Step ==
    /\ IsPrefix(rpa_events, rpa_events')
    /\ IsPrefix(ipaas_events, ipaas_events')
    /\ request'.route # "POST /logs" => UNCHANGED store
    /\ request'.route = "POST /logs" =>
          IF response'.status = 201
          THEN Len(rpa_events') + Len(ipaas_events')
                   = Len(rpa_events) + Len(ipaas_events) + 1
          ELSE UNCHANGED store
    /\ (/\ request'.route = "POST /logs"
        /\ KeyIsSecret(request')
        /\ Connected
        /\ BodyType(request') = IPAAS
        /\ ~BodyHas(request', {"ipaas_codigo"})) => response'.status = 400

\* C4: a POST /logs appends exactly one record to exactly one collection if
\* it is answered 201 and leaves both collections unchanged otherwise (an
\* iPaaS payload without ipaas_codigo is answered 400); GET /logs and GET /
\* leave both collections unchanged; no step changes or removes a stored
\* record.
C4_Frame == [][C4_Step]_vars

\* An iPaaS payload without ipaas_codigo was refused while a record is stored.
C4_Witness ==
    /\ request.route = "POST /logs"
    /\ KeyIsSecret(request)
    /\ BodyType(request) = IPAAS
    /\ ~BodyHas(request, {"ipaas_codigo"})
    /\ response.status = 400
    /\ Len(rpa_events) = 1
    /\ Len(ipaas_events) = 0

\* ---------------------------------------------------------------- C5
\* C5 as stated: an authorized iPaaS payload whose data is non-empty and not
\* an object is answered 400, and every stored iPaaS record has an object as
\* execution_details.
C5_AsStated ==
    /\ (/\ request.route = "POST /logs"
        /\ KeyIsSecret(request)
        /\ Connected
        /\ BodyType(request) = IPAAS
        /\ BodyHas(request, {"ipaas_codigo", "data"})
        /\ Get(request.body.data, "data").t # "object"
        /\ Truthy(Get(request.body.data, "data"))) => response.status = 400
    /\ \A i \in DOMAIN ipaas_events : ipaas_events[i].execution_details.t = "object"

\* ---------------------------------------------------------------- C6
\* C6 as stated: with data_fim a calendar date and no other filter, a stored
\* record is listed iff its timestamp is before 00:00 of the following day.
C6_AsStated ==
    (/\ AnsweredGet
     /\ ~Truthy(request.data_inicio)
     /\ request.data_fim.t = "datestr"
     /\ request.data_fim.fmt = "date") =>
        \A i \in DOMAIN rpa_events :
            InLogs(rpa_events[i])
                <=> rpa_events[i].timestamp_utc < (request.data_fim.day + 1) * TicksPerDay

\* ---------------------------------------------------------------- C7
C7_Matching == {i \in DOMAIN Events(query.collection) : Matches(Events(query.collection)[i], query)}

\* C7 (amended): a GET /logs answered 200 lists at most 100 records,
\* total_resultados is the length of the list, timestamps never increase
\* along the list (equal timestamps may follow each other), every listed
\* record is a stored record matching the filter, listed once, and every
\* matching record left out is no more recent than any listed one.
C7_Page ==
    AnsweredGet =>
        LET logs == response.logs
            docs == Events(query.collection)
            shown == {i \in C7_Matching : InLogs(docs[i])}
        IN  /\ Len(logs) <= QueryLimit
            /\ response.total_resultados = Len(logs)
            /\ \A k \in 1 .. Len(logs) - 1 :
                  logs[k].timestamp_utc.iso >= logs[k + 1].timestamp_utc.iso
            /\ \A k \in DOMAIN logs : \E i \in C7_Matching : logs[k] = Render(docs[i])
            /\ Cardinality(shown) = Len(logs)
            /\ Len(logs) = IF Cardinality(C7_Matching) < QueryLimit
                           THEN Cardinality(C7_Matching) ELSE QueryLimit
            /\ \A i \in C7_Matching \ shown : \A k \in DOMAIN logs :
                  docs[i].timestamp_utc <= logs[k].timestamp_utc.iso

\* A full page cut from more matches, with two equal timestamps in a row.
C7_Witness ==
    /\ AnsweredGet
    /\ Cardinality(C7_Matching) > QueryLimit
    /\ Len(response.logs) = QueryLimit
    /\ \E k \in 1 .. Len(response.logs) - 1 :
          response.logs[k].timestamp_utc = response.logs[k + 1].timestamp_utc

\* C7 as stated: at most 100 records, total_resultados their number, and
\* each record's timestamp greater than that of the record after it.
C7_AsStated ==
    AnsweredGet =>
        /\ Len(response.logs) <= QueryLimit
        /\ response.total_resultados = Len(response.logs)
        /\ \A k \in 1 .. Len(response.logs) - 1 :
              response.logs[k].timestamp_utc.iso > response.logs[k + 1].timestamp_utc.iso

\* ---------------------------------------------------------------- C8
TypeResolves(req) == Truthy(req.type) /\ Lower(PyStr(req.type)) \in {RPA, IPAAS}

\* C8 (amended): with both collection handles absent, every authorized
\* POST /logs is answered 503, an authorized GET /logs is answered 503 when
\* its type is rpa or ipaas and 400 when the type is missing or unknown, and
\* GET / is answered 200 reporting the store as disconnected.
C8_Degraded ==
    (~rpa_collection /\ ~ipaas_collection) =>
        /\ (request.route = "POST /logs" /\ KeyIsSecret(request)) =>
              response.status = 503
        /\ (request.route = "GET /logs" /\ KeyIsSecret(request)) =>
              response.status = IF TypeResolves(request) THEN 503 ELSE 400
        /\ request.route = "GET /" =>
              response.status = 200 /\ response.mongodb_status = "desconectado"

\* Without a connection a GET /logs of type rpa is answered 503.
C8_Witness ==
    /\ ~rpa_collection
    /\ ~ipaas_collection
    /\ request.route = "GET /logs"
    /\ KeyIsSecret(request)
    /\ request.type = Str(<<"R", "P", "A">>)
    /\ response.status = 503

\* C8 as stated: without a connection every authorized POST /logs and
\* GET /logs is answered 503.
C8_AsStated ==
    (/\ ~rpa_collection
     /\ ~ipaas_collection
     /\ request.route \in {"POST /logs", "GET /logs"}
     /\ KeyIsSecret(request)) => response.status = 503

\* ---------------------------------------------------------------- C9
\* C9 as stated: every request ends in one of the handlers' own JSON
\* responses, with status 200, 201, 400, 401, 403, 500 or 503.
C9_AsStated ==
    request.route # "none" =>
        /\ response.structured
        /\ response.status \in {200, 201, 400, 401, 403, 500, 503}

\* ---------------------------------------------------------------- C10
C10_Fim == request.data_fim
C10_Utc == C10_Fim.day * TicksPerDay + C10_Fim.tick - C10_Fim.off

C10_AwareFim ==
    /\ AnsweredGet
    /\ request.data_fim.t = "datestr"
    /\ request.data_fim.fmt = "aware"

\* C10 (amended): a data_fim with a zone offset is normalized to UTC, and the
\* explicit-time decision is taken on the time of day as written: when it is
\* not midnight the bound is inclusive at the normalized instant and no day
\* is added; when it is midnight the bound is exclusive one day after the
\* normalized instant.
C10_AsWritten ==
    C10_AwareFim =>
        IF C10_Fim.tick # 0
        THEN /\ query.lte = Some(C10_Utc)
             /\ query.lt = None
             /\ ~Truthy(request.data_inicio) =>
                   \A i \in DOMAIN rpa_events :
                       InLogs(rpa_events[i]) <=> rpa_events[i].timestamp_utc <= C10_Utc
        ELSE /\ query.lt = Some(C10_Utc + TicksPerDay)
             /\ query.lte = None
             /\ ~Truthy(request.data_inicio) =>
                   \A i \in DOMAIN rpa_events :
                       InLogs(rpa_events[i])
                           <=> rpa_events[i].timestamp_utc < C10_Utc + TicksPerDay

\* Midnight as written, one tick east of UTC: the normalized value is not
\* midnight, and the bound is exclusive one day later.
C10_Witness ==
    /\ C10_AwareFim
    /\ C10_Fim.tick = 0
    /\ C10_Fim.off = 1
    /\ query.lt = Some(C10_Utc + TicksPerDay)
    /\ Len(rpa_events) = 1
    /\ rpa_events[1].timestamp_utc = C10_Utc + 1
    /\ InLogs(rpa_events[1])

\* C10 as stated: the decision is taken on the normalized value.
C10_AsStated ==
    C10_AwareFim =>
        IF C10_Utc % TicksPerDay # 0
        THEN query.lte = Some(C10_Utc) /\ query.lt = None
        ELSE query.lt = Some(C10_Utc + TicksPerDay) /\ query.lte = None

=============================================================================
